---- MODULE Spec2Model ----
(***************************************************************************)
(* Model of the two product-sync scripts of ejoyshopper:                   *)
(*   mymall_scraper.py         (SpecScraper)                               *)
(*   scripts/sync_products.py  (SpecSync)                                  *)
(* Python values are tagged tuples <<tag, payload>> so that values of      *)
(* different Python types can be compared.                                 *)
(***************************************************************************)
EXTENDS Integers, Sequences, FiniteSets, TLC

\* ---------------------------------------------------------------- bounds
MaxRuns == 3
MaxItems == 2

\* ------------------------------------------------------- Python values
PyNone == <<"None">>
PyInt(n) == <<"int", n>>
PyStr(s) == <<"str", s>>
PyList(xs) == <<"list", xs>>
PyDict(d) == <<"dict", d>>

\* Python truth value of an object (bool(v)).
Truthy(v) ==
    CASE v[1] = "None" -> FALSE
      [] v[1] = "int"  -> v[2] # 0
      [] v[1] = "str"  -> v[2] # ""
      [] v[1] = "list" -> Len(v[2]) # 0
      [] v[1] = "dict" -> DOMAIN v[2] # {}

\* json.dumps of a scalar: None -> null, int -> number, str -> string.
JsonValue(v) ==
    CASE v[1] = "None" -> <<"null">>
      [] v[1] = "int"  -> <<"number", v[2]>>
      [] v[1] = "str"  -> <<"string", v[2]>>

\* ----------------------------------------------------- program constants
DEFAULT_MEMBER == "af000049855"
\* f"https://www.mymall.com.tw/pro-123?member={DEFAULT_MEMBER}"
SCRAPE_URL == "https://www.mymall.com.tw/pro-123?member=af000049855"
API_RES_URL == "https://www.mymall.com.tw/pro-456"
\* Titles are written as json.dumps prints them (ensure_ascii escapes).
SCRAPE_TITLE == "\\u6e2c\\u8a66\\u5546\\u54c1"
API_RES_TITLE == "API \\u6e2c\\u8a66\\u5546\\u54c1"
FEED_URL_A == "https://www.mymall.com.tw/pro-789"
FEED_URL_B == "https://www.mymall.com.tw/pro-790"

\* hashlib.sha1(url.encode("utf-8")).hexdigest(), tabulated on the URLs
\* that occur in the model.
make_id(url) ==
    CASE url = SCRAPE_URL  -> "f4f3561a5486bd899d2596e4fa82109db42bb297"
      [] url = API_RES_URL -> "7d4b2bfecaac0c95a4d877749f8e5486c9475665"
      [] url = FEED_URL_A  -> "9a35792a3999dc2082caa3d9a9f5775cac5faf8a"
      [] url = FEED_URL_B  -> "901bd1260052d115f9b7ad5f2f70f7c143c5be97"
      [] url = ""          -> "da39a3ee5e6b4b0d3255bfef95601890afd80709"

\* ------------------------------------------------------------- Product
ProductFields == <<"id", "title", "url", "price", "currency", "image", "stock", "source">>

Product(id, title, url, price, currency, image, stock, source) ==
    <<PyStr(id), PyStr(title), PyStr(url), price, PyStr(currency), image, stock, PyStr(source)>>

FieldIndex(f) == CHOOSE i \in 1..Len(ProductFields) : ProductFields[i] = f

\* Variant: fields holding None are left out.
asdictSparse(p) ==
    [f \in {ProductFields[i] : i \in {j \in 1..Len(ProductFields) : p[j] # PyNone}} |->
        p[CHOOSE i \in 1..Len(ProductFields) : ProductFields[i] = f]]

\* dataclasses.asdict: field name -> value, every declared field present.
asdict(p) == [f \in {ProductFields[i] : i \in 1..Len(ProductFields)} |-> p[FieldIndex(f)]]

\* json.dumps(rows) for a list of flat dicts.
json_dumps(rows) ==
    [i \in 1..Len(rows) |-> [f \in DOMAIN rows[i] |-> JsonValue(rows[i][f])]]

\* ===================================================== mymall_scraper.py
VARIABLES
    pc,          \* "start" | "post" (POST in flight) | "done"
    environ,     \* SUPABASE_URL, SUPABASE_SERVICE_ROLE_KEY as read at import
    requestsMod, \* TRUE iff "import requests" succeeded (_requests is not None)
    args,        \* parsed command line: mode, insert
    products,    \* main's list of Product
    out,         \* lines printed to stdout, in order
    wire,        \* write requests sent to the store by the running process
    store,       \* rows of the remote products table
    postResp,    \* outcome of the POST, NoPost before it returns
    ret,         \* process exit status; -1 while running
    runs         \* number of processes started so far

\* scripts/sync_products.py
VARIABLES
    pc2,         \* "start" | "fetch" (GET in flight) | "upsert" (execute in flight) | "done"
    environ2,    \* SUPABASE_URL, SUPABASE_KEY, MEMBER_ID, API_URL as read at import
    log,         \* logging records <<level, message, ...>>, in order
    gets,        \* GET requests sent to the source API
    client,      \* TRUE once create_client has been called
    getResp,     \* outcome of the GET, NoGet before it returns
    execResp,    \* outcome of execute(), NoExecute before it returns
    fetched,     \* "products" of __main__, the value fetch_products returned
    exit2,       \* process exit status; -1 while running
    uncaught     \* name of the exception that ended the process, or "none"

scraperVars == <<pc, environ, requestsMod, args, products, out, store, postResp, ret, runs>>
syncVars == <<pc2, environ2, log, gets, client, getResp, execResp, fetched, exit2, uncaught>>
vars == <<scraperVars, syncVars, wire>>

Modes == {"scrape", "api"}
EnvValues == {PyNone, PyStr(""), PyStr("https://proj.supabase.co")}
StatusCodes == {200, 201, 304, 401, 500}
Unbound == <<"unbound">>

\* Outcomes of _requests.post(..., timeout=30): a response with a status, or
\* an exception (connection error, timeout).  After an exception the store
\* may or may not have applied the write.
PostOutcomes ==
    {[kind |-> "response", status |-> s, applied |-> (s \in 200..299)] : s \in StatusCodes}
    \cup {[kind |-> "exception", status |-> 0, applied |-> b] : b \in BOOLEAN}

NotJson == <<"notjson">>

\* No outcome yet.
NoPost == [kind |-> "none", status |-> 0, applied |-> FALSE]
NoGet == [kind |-> "none", status |-> 0, body |-> NotJson]
NoExecute == [kind |-> "none", raises |-> FALSE, full |-> FALSE]

\* main, lines 104-130: the record list of a mode.
ScrapeProduct ==
    Product(make_id(SCRAPE_URL), SCRAPE_TITLE, SCRAPE_URL, PyInt(299), "TWD",
            PyNone, PyInt(100), "scrape")

ApiProduct ==
    Product(make_id(API_RES_URL), API_RES_TITLE, API_RES_URL, PyInt(499), "TWD",
            PyNone, PyInt(50), "api")

\* Variant: the two branches of main exchanged.
BuildProductsSwapped(mode) ==
    IF mode = "scrape" THEN <<ApiProduct>>
    ELSE IF mode = "api" THEN <<ScrapeProduct>>
    ELSE <<>>

BuildProducts(mode) ==
    IF mode = "scrape" THEN <<ScrapeProduct>>
    ELSE IF mode = "api" THEN <<ApiProduct>>
    ELSE <<>>

\* "if args.insert and products"
WantsWrite(a, ps) == a.insert /\ Len(ps) # 0

\* Variant: skips only when both settings are missing.
ConfigMissingBoth(env) ==
    ~Truthy(env.SUPABASE_URL) /\ ~Truthy(env.SUPABASE_SERVICE_ROLE_KEY)

\* "if not SUPABASE_URL or not SUPABASE_SERVICE_ROLE_KEY"
ConfigMissing(env) ==
    ~Truthy(env.SUPABASE_URL) \/ ~Truthy(env.SUPABASE_SERVICE_ROLE_KEY)

\* The early returns of supabase_upsert_products: the notice printed, or
\* <<>> when the function goes on to the POST.
UpsertSkipLines(env, rq) ==
    IF ConfigMissing(env) THEN << <<"INFO_NO_CONFIG">> >>
    ELSE IF ~rq THEN << <<"INFO_NO_REQUESTS">> >>
    ELSE <<>>

\* Variant: the availability of the HTTP client is not checked.
UpsertSendsUnchecked(env, rq) == ~ConfigMissing(env)

UpsertSends(env, rq) == ~ConfigMissing(env) /\ rq

\* rows = [asdict(p) for p in products]
RowsOf(ps) == [i \in 1..Len(ps) |-> asdict(ps[i])]

\* str(v) as an f-string formats it.
StrOf(v) == IF v[1] = "None" THEN "None" ELSE v[2]

\* SUPABASE_HEADERS["apikey"]: SUPABASE_SERVICE_ROLE_KEY or ""
ApiKeyHeader(key) == IF Truthy(key) THEN key[2] ELSE ""

\* The POST of supabase_upsert_products.
UpsertRequest(env, ps) ==
    [url     |-> <<StrOf(env.SUPABASE_URL), "/rest/v1/products">>,
     params  |-> [on_conflict |-> "id"],
     prefer  |-> "resolution=merge-duplicates,return=representation",
     apikey  |-> ApiKeyHeader(env.SUPABASE_SERVICE_ROLE_KEY),
     body    |-> json_dumps(RowsOf(ps))]

\* Response.raise_for_status raises HTTPError for 4xx and 5xx.
raise_for_status(status) == status >= 400 /\ status < 600

\* print("[Supabase] response:", r.status_code, ...) ; NameError if r was
\* never bound.
PrintResponse(r) ==
    IF r = Unbound THEN [lines |-> <<>>, exc |-> "NameError"]
    ELSE [lines |-> << <<"RESPONSE", r[2]>> >>, exc |-> "none"]

\* The except branch: failure line, then the guarded diagnostic print.
HandleFailure(r) ==
    [lines |-> << <<"UPSERT_FAIL">> >> \o PrintResponse(r).lines, exc |-> "none"]

\* The try block after the POST returned or raised.
UpsertAfterPost(n, o) ==
    LET r == IF o.kind = "response" THEN <<"response", o.status>> ELSE Unbound
        raised == o.kind = "exception" \/ raise_for_status(o.status)
    IN IF raised THEN HandleFailure(r)
       ELSE [lines |-> << <<"UPSERT_OK", n>> >>, exc |-> "none"]

\* The closing prints of main.
MainReport(ps) ==
    << <<"SUCCESS", Len(ps)>> >> \o [i \in 1..Len(ps) |-> <<"TITLE", ps[i][2][2]>>]

\* Variant: a plain insert, every row appended.
MergeAppend(table, rows) == table \o rows

\* The store's write with on_conflict=id and resolution=merge-duplicates:
\* a row whose id is present replaces that row, any other row is appended.
RECURSIVE Merge(_, _)
Merge(table, rows) ==
    IF rows = <<>> THEN table
    ELSE LET row == Head(rows)
             hit == {i \in 1..Len(table) : table[i].id = row.id}
             next == IF hit = {} THEN Append(table, row)
                     ELSE [i \in 1..Len(table) |-> IF i \in hit THEN row ELSE table[i]]
         IN Merge(next, Tail(rows))

\* ------------------------------------------------------ scraper actions
NoArgs == [mode |-> "scrape", insert |-> FALSE]
NoEnv == [SUPABASE_URL |-> PyNone, SUPABASE_SERVICE_ROLE_KEY |-> PyNone]

\* Module import and main up to "if args.insert and products".
ProcessStart(mode, insert, su, sk, rq) ==
    /\ pc \in {"start", "done"}
    /\ runs < MaxRuns
    /\ runs' = runs + 1
    /\ environ' = [SUPABASE_URL |-> su, SUPABASE_SERVICE_ROLE_KEY |-> sk]
    /\ requestsMod' = rq
    /\ args' = [mode |-> mode, insert |-> insert]
    /\ products' = BuildProducts(mode)
    /\ postResp' = NoPost

\* A run in which main does not call supabase_upsert_products.
MainNoWrite(mode, insert, su, sk, rq) ==
    /\ ProcessStart(mode, insert, su, sk, rq)
    /\ ~WantsWrite(args', products')
    /\ out' = MainReport(products')
    /\ wire' = <<>>
    /\ ret' = 0
    /\ pc' = "done"
    /\ UNCHANGED <<store, syncVars>>

\* A run in which supabase_upsert_products returns early.
MainWriteSkipped(mode, insert, su, sk, rq) ==
    /\ ProcessStart(mode, insert, su, sk, rq)
    /\ WantsWrite(args', products')
    /\ ~UpsertSends(environ', rq)
    /\ out' = UpsertSkipLines(environ', rq) \o MainReport(products')
    /\ wire' = <<>>
    /\ ret' = 0
    /\ pc' = "done"
    /\ UNCHANGED <<store, syncVars>>

\* A run up to the POST of supabase_upsert_products.
MainSendsPost(mode, insert, su, sk, rq) ==
    /\ ProcessStart(mode, insert, su, sk, rq)
    /\ WantsWrite(args', products')
    /\ UpsertSends(environ', rq)
    /\ out' = <<>>
    /\ wire' = <<UpsertRequest(environ', products')>>
    /\ ret' = -1
    /\ pc' = "post"
    /\ UNCHANGED <<store, syncVars>>

\* The POST returns or raises; the rest of supabase_upsert_products and of
\* main run to the end of the process.
PostReturns(o) ==
    /\ pc = "post"
    /\ postResp' = o
    /\ LET req == wire[Len(wire)]
           res == UpsertAfterPost(Len(req.body), o)
       IN /\ store' = IF o.applied THEN Merge(store, req.body) ELSE store
          /\ IF res.exc = "none"
             THEN /\ out' = out \o res.lines \o MainReport(products)
                  /\ ret' = 0
             ELSE /\ out' = out \o res.lines \o << <<"TRACEBACK", res.exc>> >>
                  /\ ret' = 1
    /\ pc' = "done"
    /\ UNCHANGED <<environ, requestsMod, args, products, runs, wire, syncVars>>

InitScraper ==
    /\ pc = "start"
    /\ environ = NoEnv
    /\ requestsMod = FALSE
    /\ args = NoArgs
    /\ products = <<>>
    /\ out = <<>>
    /\ store = <<>>
    /\ postResp = NoPost
    /\ ret = -1
    /\ runs = 0

InitSync ==
    /\ pc2 = "start"
    /\ environ2 = [SUPABASE_URL |-> PyNone, SUPABASE_KEY |-> PyNone,
                   MEMBER_ID |-> PyNone, API_URL |-> PyNone]
    /\ log = <<>>
    /\ gets = 0
    /\ client = FALSE
    /\ getResp = NoGet
    /\ execResp = NoExecute
    /\ fetched = PyNone
    /\ exit2 = -1
    /\ uncaught = "none"

Init == InitScraper /\ InitSync /\ wire = <<>>

NextScraper ==
    \/ \E mode \in Modes, insert \in BOOLEAN, su \in EnvValues, sk \in EnvValues, rq \in BOOLEAN :
          MainNoWrite(mode, insert, su, sk, rq)
    \/ \E mode \in Modes, insert \in BOOLEAN, su \in EnvValues, sk \in EnvValues, rq \in BOOLEAN :
          MainWriteSkipped(mode, insert, su, sk, rq)
    \/ \E mode \in Modes, insert \in BOOLEAN, su \in EnvValues, sk \in EnvValues, rq \in BOOLEAN :
          MainSendsPost(mode, insert, su, sk, rq)
    \/ \E o \in PostOutcomes : PostReturns(o)

SpecScraper == Init /\ [][NextScraper]_vars

\* ================================================ scripts/sync_products.py
RequiredEnv == {"SUPABASE_URL", "SUPABASE_KEY", "MEMBER_ID", "API_URL"}
Env2Values == {PyNone, PyStr(""), PyStr("set")}

\* all([SUPABASE_URL, SUPABASE_KEY, MEMBER_ID, API_URL])
EnvComplete(env) == \A k \in RequiredEnv : Truthy(env[k])

\* Raw records the source API may list under "items".
FeedItems ==
    { PyDict([id |-> PyStr(make_id(FEED_URL_A)), url |-> PyStr(FEED_URL_A), title |-> PyStr("A")]),
      PyDict([id |-> PyStr("sku-790"), url |-> PyStr(FEED_URL_B), title |-> PyStr("B")]),
      PyDict([id |-> PyStr("sku-0"), url |-> PyStr(""), title |-> PyStr("C")]),
      PyDict([id |-> PyStr("sku-1"), title |-> PyStr("D")]),
      PyStr("pro-789") }

ItemLists == UNION {[1..n -> FeedItems] : n \in 0..MaxItems}

\* Bodies of a 200 response: not JSON, or a JSON document.
GetBodies ==
    {NotJson}
    \cup {<<"json", PyList(<<>>)>>, <<"json", PyDict([total |-> PyInt(0)])>>,
          <<"json", PyDict([items |-> PyNone])>>, <<"json", PyDict([items |-> PyInt(5)])>>}
    \cup {<<"json", PyDict([items |-> PyList(xs)])>> : xs \in ItemLists}

\* Outcomes of requests.get(API_URL): an exception of the requests library,
\* or a response.
GetOutcomes ==
    {[kind |-> "exception", status |-> 0, body |-> NotJson]}
    \cup {[kind |-> "response", status |-> s, body |-> NotJson] : s \in {304, 404, 500}}
    \cup {[kind |-> "response", status |-> 200, body |-> b] : b \in GetBodies}

\* Outcomes of supabase.from_('products').upsert(...).execute(): the client
\* raises (transport error, or a rejection reported as an exception), or
\* returns a response whose data has ndata rows.
ExecuteOutcomes ==
    {[kind |-> "transport", raises |-> TRUE, full |-> FALSE],
     [kind |-> "rejected", raises |-> TRUE, full |-> FALSE],
     [kind |-> "rejected", raises |-> FALSE, full |-> FALSE],
     [kind |-> "ok", raises |-> FALSE, full |-> TRUE],
     [kind |-> "ok", raises |-> FALSE, full |-> FALSE]}

\* dict.get(key, default)
DictGet(d, k, default) == IF k \in DOMAIN d[2] THEN d[2][k] ELSE default

\* fetch_products after the GET returned or raised.  Response.json() raises
\* requests.exceptions.JSONDecodeError, a RequestException, on a body that
\* is not JSON; ".get" on a JSON document that is not an object raises
\* AttributeError, which the except clause does not name.
fetch_products(o) ==
    LET caught == [value |-> PyList(<<>>), exc |-> "none",
                   lines |-> << <<"ERROR", "Error fetching products from API">> >>]
    IN IF o.kind = "exception" \/ raise_for_status(o.status) THEN caught
       ELSE IF o.body = NotJson
            THEN caught
       ELSE IF o.body[2][1] # "dict"
            THEN [value |-> PyNone, exc |-> "AttributeError", lines |-> <<>>]
       ELSE [value |-> DictGet(o.body[2], "items", PyList(<<>>)), exc |-> "none", lines |-> <<>>]

\* product['member_id'] = MEMBER_ID
SetMember(item, m) ==
    PyDict([k \in DOMAIN item[2] \cup {"member_id"} |->
               IF k = "member_id" THEN m ELSE item[2][k]])

\* Number of leading elements the loop of upsert_products gets through.
DictPrefix(ps) ==
    IF ps[1] # "list" THEN 0
    ELSE IF \A i \in 1..Len(ps[2]) : ps[2][i][1] = "dict" THEN Len(ps[2])
    ELSE (CHOOSE i \in 1..Len(ps[2]) :
             /\ ps[2][i][1] # "dict"
             /\ \A j \in 1..(i - 1) : ps[2][j][1] = "dict") - 1

\* upsert_products up to the execute() call: the early return, the loop
\* (TypeError on an element that is not a dict, or on a value that is not
\* a list), the log line.
upsert_prepare(ps, m) ==
    IF ~Truthy(ps)
    THEN [send |-> FALSE, exc |-> "none", value |-> ps,
          lines |-> << <<"INFO", "No products to upsert.">> >>]
    ELSE IF ps[1] # "list"
    THEN [send |-> FALSE, exc |-> "TypeError", value |-> ps, lines |-> <<>>]
    ELSE LET n == DictPrefix(ps)
             done == PyList([i \in 1..Len(ps[2]) |->
                                IF i <= n THEN SetMember(ps[2][i], m) ELSE ps[2][i]])
         IN IF n < Len(ps[2])
            THEN [send |-> FALSE, exc |-> "TypeError", value |-> done, lines |-> <<>>]
            ELSE [send |-> TRUE, exc |-> "none", value |-> done,
                  lines |-> << <<"INFO", "Upserting products into Supabase...", n>> >>]

\* The request execute() sends for upsert(products, on_conflict=['id']).
ExecuteRequest(env, ps) ==
    [url     |-> <<StrOf(env.SUPABASE_URL), "/rest/v1/products">>,
     params  |-> [on_conflict |-> "id"],
     prefer  |-> "resolution=merge-duplicates,return=representation",
     apikey  |-> StrOf(env.SUPABASE_KEY),
     body    |-> json_dumps([i \in 1..Len(ps[2]) |-> ps[2][i][2]])]

\* Variant: upsert_products is called whatever was fetched.
MainCallsUpsertAlways(ps) == TRUE

\* "if products:" of __main__
MainCallsUpsert(ps) == Truthy(ps)

\* upsert_products after execute(): "if response.data".
upsert_finish(o, n) ==
    IF o.raises
    THEN [exc |-> IF o.kind = "transport" THEN "ConnectError" ELSE "APIError", lines |-> <<>>]
    ELSE IF o.full /\ n > 0
    THEN [exc |-> "none", lines |-> << <<"INFO", "Successfully upserted products.", n>> >>]
    ELSE [exc |-> "none", lines |-> << <<"ERROR", "Failed to upsert products.">> >>]

\* -------------------------------------------------------- sync actions
Env2(su, sk, mi, au) ==
    [SUPABASE_URL |-> su, SUPABASE_KEY |-> sk, MEMBER_ID |-> mi, API_URL |-> au]

\* Import with a required variable missing: log and exit(1).
StartupAbort(su, sk, mi, au) ==
    /\ pc2 = "start"
    /\ ~EnvComplete(Env2(su, sk, mi, au))
    /\ environ2' = Env2(su, sk, mi, au)
    /\ log' = << <<"ERROR", "Missing one or more required environment variables.">> >>
    /\ exit2' = 1
    /\ pc2' = "done"
    /\ UNCHANGED <<gets, client, getResp, execResp, fetched, uncaught, wire, scraperVars>>

\* Import with all variables set, create_client, fetch_products up to the GET.
StartupFetch(su, sk, mi, au) ==
    /\ pc2 = "start"
    /\ EnvComplete(Env2(su, sk, mi, au))
    /\ environ2' = Env2(su, sk, mi, au)
    /\ client' = TRUE
    /\ log' = << <<"INFO", "Fetching products from API">> >>
    /\ gets' = gets + 1
    /\ pc2' = "fetch"
    /\ UNCHANGED <<getResp, execResp, fetched, exit2, uncaught, wire, scraperVars>>

\* The GET returns or raises: rest of fetch_products, then __main__ up to
\* the execute() call or to the end of the process.
GetReturns(o) ==
    /\ pc2 = "fetch"
    /\ getResp' = o
    /\ LET f == fetch_products(o)
           u == upsert_prepare(f.value, environ2.MEMBER_ID)
       IN IF f.exc # "none"
          THEN /\ log' = log \o f.lines
               /\ fetched' = PyNone
               /\ uncaught' = f.exc
               /\ exit2' = 1
               /\ pc2' = "done"
               /\ wire' = wire
          ELSE IF ~MainCallsUpsert(f.value)
          THEN /\ log' = log \o f.lines \o << <<"WARNING", "No products fetched. Exiting.">> >>
               /\ fetched' = f.value
               /\ uncaught' = "none"
               /\ exit2' = 0
               /\ pc2' = "done"
               /\ wire' = wire
          ELSE /\ log' = log \o f.lines \o u.lines
               /\ fetched' = u.value
               /\ uncaught' = u.exc
               /\ exit2' = IF u.exc # "none" THEN 1 ELSE IF u.send THEN -1 ELSE 0
               /\ pc2' = IF u.send THEN "upsert" ELSE "done"
               /\ wire' = IF u.send THEN Append(wire, ExecuteRequest(environ2, u.value)) ELSE wire
    /\ UNCHANGED <<environ2, gets, client, execResp, scraperVars>>

\* execute() returns or raises: rest of upsert_products, end of the process.
ExecuteReturns(o) ==
    /\ pc2 = "upsert"
    /\ execResp' = o
    /\ LET res == upsert_finish(o, Len(fetched[2]))
       IN /\ log' = log \o res.lines
          /\ uncaught' = res.exc
          /\ exit2' = IF res.exc = "none" THEN 0 ELSE 1
    /\ pc2' = "done"
    /\ UNCHANGED <<environ2, gets, client, getResp, fetched, wire, scraperVars>>

NextSync ==
    \/ \E su \in Env2Values, sk \in Env2Values, mi \in Env2Values, au \in Env2Values :
          StartupAbort(su, sk, mi, au)
    \/ \E su \in Env2Values, sk \in Env2Values, mi \in Env2Values, au \in Env2Values :
          StartupFetch(su, sk, mi, au)
    \/ \E o \in GetOutcomes : GetReturns(o)
    \/ \E o \in ExecuteOutcomes : ExecuteReturns(o)

SpecSync == Init /\ [][NextSync]_vars

\* ================================================================ claims
Missing(v) == v = PyNone \/ v = PyStr("")

NoTraceback == \A i \in 1..Len(out) : out[i][1] # "TRACEBACK"

\* The last lines printed are the success line with the count, then one
\* line per record with its title.
EndsWithReport ==
    /\ Len(out) >= 1 + Len(products)
    /\ out[Len(out) - Len(products)] = <<"SUCCESS", Len(products)>>
    /\ \A i \in 1..Len(products) :
          out[Len(out) - Len(products) + i] = <<"TITLE", products[i][2][2]>>

CountLines(tag) == Cardinality({i \in 1..Len(out) : out[i][1] = tag})

\* C1: with --insert, when SUPABASE_URL or SUPABASE_SERVICE_ROLE_KEY is
\* absent or empty, no request is sent, nothing is raised, and main prints
\* the success line with the count and titles of the records built and
\* returns 0, in every mode.
C1_NoConfigIsNoOp ==
    (args.insert /\ (Missing(environ.SUPABASE_URL) \/ Missing(environ.SUPABASE_SERVICE_ROLE_KEY)))
       => /\ pc = "done"
          /\ wire = <<>>
          /\ postResp = NoPost
          /\ NoTraceback
          /\ ret = 0
          /\ Len(products) = 1
          /\ EndsWithReport

C1_Witness ==
    /\ pc = "done"
    /\ args.insert
    /\ args.mode = "api"
    /\ requestsMod
    /\ ~Missing(environ.SUPABASE_URL)
    /\ environ.SUPABASE_SERVICE_ROLE_KEY = PyStr("")
    /\ out = << <<"INFO_NO_CONFIG">>, <<"SUCCESS", 1>>, <<"TITLE", API_RES_TITLE>> >>

\* C2: for every outcome of the POST (exception without response object,
\* non-2xx status, 2xx status) supabase_upsert_products returns without
\* raising, a failure line is printed on every failing outcome, and main
\* still prints its success report and returns 0.
C2_EveryOutcomeHandled ==
    (pc = "done" /\ postResp.kind # "none")
       => /\ NoTraceback
          /\ ret = 0
          /\ EndsWithReport
          /\ (postResp.kind = "exception" \/ postResp.status \notin 200..299)
                => CountLines("UPSERT_FAIL") >= 1

\* C6: the store holds at most one row per url, and a write of a record
\* whose row the store already holds leaves the store unchanged.
C6_StoreKeyedByUrl ==
    /\ [](\A i \in 1..Len(store) : \A j \in 1..Len(store) :
             store[i].url = store[j].url => i = j)
    /\ [][(pc = "post" /\ \E i \in 1..Len(store) : store[i].url = wire[1].body[1].url)
             => store' = store]_vars

C6_Witness ==
    /\ runs >= 3
    /\ pc = "done"
    /\ postResp.kind = "response" /\ postResp.status = 200
    /\ Len(store) = 2
    /\ store[1].url = <<"string", API_RES_URL>>
    /\ store[2].url = <<"string", SCRAPE_URL>>
    /\ args.mode = "api"

\* C7: the request body has one row per Product, in order, each with
\* exactly the eight fields, None written as null, and the Products are
\* not changed by the call.
C7_BodyIsProducts ==
    /\ [](\A k \in 1..Len(wire) :
            /\ Len(wire[k].body) = Len(products)
            /\ \A i \in 1..Len(products) :
                  /\ DOMAIN wire[k].body[i] =
                        {"id", "title", "url", "price", "currency", "image", "stock", "source"}
                  /\ \A n \in 1..8 :
                        wire[k].body[i][ProductFields[n]] =
                           IF products[i][n] = PyNone THEN <<"null">>
                           ELSE IF products[i][n][1] = "int" THEN <<"number", products[i][n][2]>>
                           ELSE <<"string", products[i][n][2]>>
                  /\ wire[k].body[i].image = <<"null">>)
    /\ [][pc = "post" => products' = products]_vars

C7_Witness ==
    /\ pc = "done"
    /\ Len(wire) = 1
    /\ products = <<ScrapeProduct>>
    /\ wire[1].body[1].image = <<"null">>
    /\ wire[1].body[1].price = <<"number", 299>>

\* C8: with the write disabled main builds and lists exactly one record
\* fixed by the mode, reports the count 1 and sends no request.
C8_MockRecords ==
    (pc = "done" /\ ~args.insert)
       => /\ wire = <<>>
          /\ postResp = NoPost
          /\ Len(products) = 1
          /\ args.mode = "scrape" =>
                /\ products[1][2] = PyStr(SCRAPE_TITLE)
                /\ products[1][4] = PyInt(299)
                /\ products[1][5] = PyStr("TWD")
                /\ products[1][8] = PyStr("scrape")
                /\ out = << <<"SUCCESS", 1>>, <<"TITLE", SCRAPE_TITLE>> >>
          /\ args.mode = "api" =>
                /\ products[1][2] = PyStr(API_RES_TITLE)
                /\ products[1][4] = PyInt(499)
                /\ products[1][8] = PyStr("api")
                /\ out = << <<"SUCCESS", 1>>, <<"TITLE", API_RES_TITLE>> >>
          /\ ret = 0

C8_Witness ==
    /\ pc = "done"
    /\ ~args.insert
    /\ args.mode = "api"
    /\ ~Missing(environ.SUPABASE_URL)
    /\ ~Missing(environ.SUPABASE_SERVICE_ROLE_KEY)
    /\ requestsMod
    /\ out = << <<"SUCCESS", 1>>, <<"TITLE", API_RES_TITLE>> >>

\* C10: a run sends at most one write request and never repeats it; a
\* request is sent only with --insert, a non-empty product list, both
\* store settings present and the HTTP client available; and once the
\* request has returned exactly one of the upsert-success line and the
\* upsert-failure line has been printed.
C10_SingleWrite ==
    /\ [](/\ Len(wire) <= 1
          /\ wire # <<>> =>
                /\ args.insert
                /\ Len(products) > 0
                /\ ~Missing(environ.SUPABASE_URL)
                /\ ~Missing(environ.SUPABASE_SERVICE_ROLE_KEY)
                /\ requestsMod
          /\ (pc = "done" /\ wire # <<>>) =>
                CountLines("UPSERT_OK") + CountLines("UPSERT_FAIL") = 1
          /\ wire = <<>> => CountLines("UPSERT_OK") + CountLines("UPSERT_FAIL") = 0)
    /\ [][pc = "post" => wire' = wire]_vars

C10_Witness ==
    /\ pc = "done"
    /\ Len(wire) = 1
    /\ postResp.kind = "exception"
    /\ out = << <<"UPSERT_FAIL">>, <<"SUCCESS", 1>>, <<"TITLE", SCRAPE_TITLE>> >>

EnvIncomplete ==
    \/ Missing(environ2.SUPABASE_URL)
    \/ Missing(environ2.SUPABASE_KEY)
    \/ Missing(environ2.MEMBER_ID)
    \/ Missing(environ2.API_URL)

HasLog(level) == \E i \in 1..Len(log) : log[i][1] = level

\* C3: with a required environment variable missing or empty the sync
\* process exits nonzero before any GET, client creation or upsert, and it
\* exits nonzero in no other case.
C3_ExitNonzeroIffEnvMissing ==
    pc2 = "done"
       => /\ EnvIncomplete => (exit2 # 0 /\ gets = 0 /\ ~client /\ wire = <<>>)
          /\ exit2 # 0 => EnvIncomplete

\* C4 as claimed: with an empty items list no record is produced, no upsert
\* request is sent and the skip is reported by an INFO record.
C4_EmptyFeedInfoLog ==
    (pc2 = "done" /\ getResp.kind = "response" /\ getResp.status = 200
       /\ getResp.body = <<"json", PyDict([items |-> PyList(<<>>)])>>)
       => /\ fetched = PyList(<<>>)
          /\ wire = <<>>
          /\ \E i \in 1..Len(log) :
                /\ log[i][1] = "INFO"
                /\ log[i][2] \in {"No products to upsert.", "No products fetched. Exiting."}

\* C4 amended: with an empty items list no record is produced, no upsert
\* request is sent, the skip is reported by the WARNING record "No products
\* fetched. Exiting." and by no INFO record, and the process ends with
\* status 0.
C4_EmptyFeedWarningLog ==
    (pc2 = "done" /\ getResp.kind = "response" /\ getResp.status = 200
       /\ getResp.body = <<"json", PyDict([items |-> PyList(<<>>)])>>)
       => /\ fetched = PyList(<<>>)
          /\ wire = <<>>
          /\ execResp = NoExecute
          /\ log = << <<"INFO", "Fetching products from API">>,
                      <<"WARNING", "No products fetched. Exiting.">> >>
          /\ uncaught = "none"
          /\ exit2 = 0

C4_Witness ==
    /\ pc2 = "done"
    /\ gets = 1
    /\ getResp.kind = "response" /\ getResp.status = 200
    /\ getResp.body = <<"json", PyDict([items |-> PyList(<<>>)])>>
    /\ Len(log) = 2

\* C5: every record of every write request sent to the store has a
\* non-empty url and the id make_id(url).
C5_WrittenRecordsKeyed ==
    \A k \in 1..Len(wire) : \A i \in 1..Len(wire[k].body) :
       LET row == wire[k].body[i]
       IN /\ "url" \in DOMAIN row
          /\ "id" \in DOMAIN row
          /\ row.url[1] = "string"
          /\ row.url[2] # ""
          /\ row.id = <<"string", make_id(row.url[2])>>

\* C9: once the startup check has passed, whatever the GET and the upsert
\* do, the sync run ends without an uncaught exception and with the failure
\* logged.
C9_NoFatalError ==
    (pc2 = "done" /\ ~EnvIncomplete)
       => /\ uncaught = "none"
          /\ exit2 = 0
          /\ (\/ getResp.kind = "exception"
              \/ getResp.status \notin 200..299
              \/ getResp.body = NotJson
              \/ getResp.body[2][1] # "dict") => HasLog("ERROR")
          /\ (execResp.kind \in {"transport", "rejected"}
              \/ (execResp.kind = "ok" /\ ~execResp.full)) => HasLog("ERROR")

====
